---- MODULE Spec2Model ----
(***************************************************************************)
(* A model of the deno-webui binding (src/src/webui.ts, src/src/lib.ts,    *)
(* src/src/utils.ts): the module-level library handle and window registry, *)
(* the WebUI constructor, bind() and its asynchronous trampoline, show(),   *)
(* showBrowser(), script(), setFileHandler() and its trampoline, the       *)
(* static calls and the WebUI.wait() poll loop, the string conversions     *)
(* toCString and fromCString, and the resolution of the library path.      *)
(*                                                                         *)
(* The specifications share the state and the actions, each running the    *)
(* part of the binding its name says: SpecWindows the construction,        *)
(* destruction and binding of windows; Spec the events delivered to the    *)
(* bindings; SpecLifecycle the static calls and wait(); SpecShow the show   *)
(* calls; SpecWait wait() against the windows the native library shows;    *)
(* SpecWaitEvents and SpecScript the trampoline calls made from the native *)
(* library's threads during wait() and script(); SpecFiles the file        *)
(* requests; SpecArgs the accessors of e.arg; SpecRouting the events of    *)
(* any element and type; SpecRegistry the registry under destroy(),        *)
(* close() and WebUI.clean(); SpecRetry show() after a failed show();       *)
(* SpecStrings the string conversions; SpecLoader the library path.        *)
(*                                                                         *)
(* JavaScript runs on one thread: every action below is the code that runs *)
(* between two suspension points (await) of one call.  What the native     *)
(* library and the FFI layer return is an input of the action.             *)
(***************************************************************************)
EXTENDS Integers, Sequences, FiniteSets

\* ------------------------------------------------------------------ bounds

MaxObjs == 2          \* WebUI objects the application constructs
MaxHandle == 2        \* window numbers the native library issues: 1..MaxHandle
MaxInv == 2           \* trampoline invocations the native library makes
MaxEventNumber == 1   \* native event numbers: 0..MaxEventNumber
MaxPolls == 2         \* polls of one WebUI.wait() call that answer "running"
MaxLoadFailures == 1  \* loadLib() calls that throw
MaxEmit == 1          \* trampoline calls the native library makes from its own threads
MaxFileInv == 2       \* file requests the native library makes
MaxArgCalls == 2      \* calls of the accessors of e.arg that the handlers make
MaxStrLen == 2        \* UTF-16 code units of a string given to toCString
MaxBufLen == 3        \* bytes of a buffer given to fromCString
ScriptBufferSize == 3 \* bytes of the response buffer of script(), 1024 * 1000 by default

\* ------------------------------------------------------- JavaScript values

Undefined == [t |-> "undefined"]
Null == [t |-> "null"]
Str(s) == [t |-> "string", s |-> s]
Num(n) == [t |-> "number", v |-> n]
Big(n) == [t |-> "bigint", v |-> n]
Bool(b) == [t |-> "boolean", b |-> b]

\* BigInt(x) of an integral number or bigint, Number(x) of a bigint,
\* Math.trunc(x) of an integral number.
BigInt(x) == Big(x.v)
Number(x) == Num(x.v)
MathTrunc(x) == Num(x.v)

\* Decimal digits of a natural number, as character codes.
RECURSIVE Digits(_)
Digits(n) == IF n < 10 THEN <<48 + n>> ELSE Digits(n \div 10) \o <<48 + (n % 10)>>

\* ToString, the coercion that `value + "\0"` applies to its left operand.
JsToString(x) ==
  CASE x.t = "string" -> x.s
    [] x.t = "number" -> Digits(x.v)
    [] x.t = "bigint" -> Digits(x.v)
    [] x.t = "boolean" -> IF x.b THEN <<116, 114, 117, 101>> ELSE <<102, 97, 108, 115, 101>>
    [] x.t = "null" -> <<110, 117, 108, 108>>
    [] x.t = "undefined" -> <<117, 110, 100, 101, 102, 105, 110, 101, 100>>

\* UTF-8 bytes of one code point of the Basic Multilingual Plane.
Utf8Char(c) ==
  IF c < 128 THEN <<c>>
  ELSE IF c < 2048 THEN <<192 + (c \div 64), 128 + (c % 64)>>
  ELSE <<224 + (c \div 4096), 128 + ((c \div 64) % 64), 128 + (c % 64)>>

\* UTF-16 code units: the first and the second half of a surrogate pair.
IsHighSurrogate(c) == c >= 55296 /\ c < 56320
IsLowSurrogate(c) == c >= 56320 /\ c < 57344

\* UTF-8 bytes of a code point above the Basic Multilingual Plane.
Utf8Astral(c) ==
  << 240 + (c \div 262144), 128 + ((c \div 4096) % 64), 128 + ((c \div 64) % 64), 128 + (c % 64) >>

\* new TextEncoder().encode(s), s a sequence of UTF-16 code units: a surrogate
\* pair is one code point, a surrogate without its pair is encoded as U+FFFD.
RECURSIVE TextEncode(_)
TextEncode(s) ==
  IF s = <<>> THEN <<>>
  ELSE IF IsHighSurrogate(s[1]) /\ Len(s) >= 2 /\ IsLowSurrogate(s[2])
  THEN Utf8Astral(65536 + (s[1] - 55296) * 1024 + (s[2] - 56320)) \o TextEncode(Tail(Tail(s)))
  ELSE IF IsHighSurrogate(s[1]) \/ IsLowSurrogate(s[1])
  THEN <<239, 191, 189>> \o TextEncode(Tail(s))
  ELSE Utf8Char(s[1]) \o TextEncode(Tail(s))

\* toCString(value): new TextEncoder().encode(value + "\0")
toCString(value) == TextEncode(JsToString(value) \o <<0>>)

\* a || b: every falsy value is replaced, not only undefined and null.
Coalesce_or(a, b) ==
  IF a.t \in {"undefined", "null"} \/ a = Num(0) \/ a = Bool(FALSE) \/ a = Str(<<>>)
  THEN b ELSE a

\* a ?? b
Coalesce(a, b) == IF a.t \in {"undefined", "null"} THEN b ELSE a

\* ------------------------------------------------------------------ inputs

\* What a bound handler can return (BindCallback<T>, T a string, a number,
\* a boolean, undefined or void; null is what `??` also replaces).
HandlerResults ==
  { Undefined, Null, Str(<<104, 233>>), Num(10), Num(0), Bool(FALSE) }

\* Element ids passed to bind(); "" binds all elements.
BindIds == {"", "sum"}

\* Static methods modelled: each is WebUI.init() followed by one native call.
StaticFns == {"exit", "setMultiClient"}

StaticEntry(fn) ==
  CASE fn = "exit" -> "webui_exit"
    [] fn = "setMultiClient" -> "webui_set_config"

\* ------------------------------------------------------------------- state

VARIABLES
  lib,            \* _lib: 0 when undefined, else the number of the open that made it
  opens,          \* loadLib() calls that returned a library
  loadFailures,   \* loadLib() calls that threw
  config,         \* native options written by webui_set_config: option -> "unset", "true", "false"
  cfg5Writes,     \* webui_set_config(5, ...) calls made
  called,         \* native entry points invoked so far
  early,          \* native entry points invoked before option 5 was written
  undefinedCalls, \* native entry points reached through an undefined _lib
  ffiBigint,      \* whether the FFI layer presents usize values as bigint (else number)
  windows,        \* the registry: a set of <<key, object>> pairs, one per key
  objs,           \* the constructed WebUI objects, in construction order
  destroyed,      \* objects on which destroy() was called
  live,           \* window numbers the native library has issued and not destroyed
  bound,          \* the native binding table: <<window number, element id, object>>
  invs,           \* trampoline invocations, in order of entry
  unhandled,      \* invocations whose promise rejected with no handler attached
  proc,           \* "running", or "exited" once the runtime has ended the process
  exitOnUnhandled,\* whether the runtime ends the process on an unhandled rejection
  waitPc,         \* WebUI.wait(): "idle", "sleeping", "resolved"
  waitPolls,      \* results of webui_interface_is_app_running in the current wait()
  waitNative,     \* native entry points invoked by the loop of wait()
  servers,        \* window numbers the native library is showing a window for
  exitNow,        \* whether webui_exit has been called
  fileHandlers,   \* the native file-handler table: one registration per window number
  showCall,       \* the show() or showBrowser() call being followed
  pending,        \* trampoline calls the native library has made and the thread has not run yet
  scriptCall,     \* the script() or scriptClient() call being followed
  fileInvs,       \* invocations of file-handler trampolines, in order of entry
  utilCall        \* the string conversion or the evaluation of libPath being followed

vars == << lib, opens, loadFailures, config, cfg5Writes, called, early, undefinedCalls,
           ffiBigint, windows, objs, destroyed, live, bound, invs, unhandled, proc,
           exitOnUnhandled, waitPc, waitPolls, waitNative, servers, exitNow,
           fileHandlers, showCall, pending, scriptCall, fileInvs, utilCall >>

libVars == << lib, opens, loadFailures, config, cfg5Writes, called, early, undefinedCalls >>
winVars == << windows, objs, destroyed, live, bound >>
invVars == << invs, unhandled, proc >>
waitVars == << waitPc, waitPolls, waitNative >>
nativeVars == << servers, exitNow, fileHandlers >>
callVars == << showCall, pending, scriptCall, fileInvs >>
windowVars == << libVars, winVars, invVars, waitVars, nativeVars, callVars,
                ffiBigint, exitOnUnhandled >>

\* No string conversion and no evaluation of libPath is followed.
NoUtil == [ fn |-> "none" ]

\* ------------------------------------------------- the library handle, init

\* The module-level state that WebUI.init() and the native calls read and write.
G == [ lib |-> lib, opens |-> opens, loadFailures |-> loadFailures, config |-> config,
       cfg5Writes |-> cfg5Writes, called |-> called, early |-> early,
       undefinedCalls |-> undefinedCalls, threw |-> FALSE ]

SetG(g) ==
  /\ lib' = g.lib
  /\ opens' = g.opens
  /\ loadFailures' = g.loadFailures
  /\ config' = g.config
  /\ cfg5Writes' = g.cfg5Writes
  /\ called' = g.called
  /\ early' = g.early
  /\ undefinedCalls' = g.undefinedCalls

\* _lib.symbols.<name>(...): a TypeError when _lib is undefined.
NativeCall(g, name) ==
  IF g.lib = 0
  THEN [g EXCEPT !.undefinedCalls = @ \cup {name}, !.threw = TRUE]
  ELSE [g EXCEPT !.called = @ \cup {name},
                 !.early = IF g.cfg5Writes = 0 /\ name # "webui_set_config"
                           THEN @ \cup {name} ELSE @]

\* _lib.symbols.webui_set_config(BigInt(option), status)
SetConfig(g, option, status) ==
  LET g1 == NativeCall(g, "webui_set_config") IN
  IF g1.threw THEN g1
  ELSE [g1 EXCEPT !.config[option] = IF status THEN "true" ELSE "false",
                  !.cfg5Writes = IF option = 5 THEN @ + 1 ELSE @]

\* loadLib(): Deno.dlopen(libPath, symbols); ok is whether dlopen succeeds.
loadLib(g, ok) ==
  IF ok THEN [g EXCEPT !.lib = g.opens + 1, !.opens = @ + 1]
  ELSE [g EXCEPT !.loadFailures = @ + 1, !.threw = TRUE]

\* WebUI.init() without the guard on _lib.
WebUI_init_unguarded(g, ok) ==
  LET g1 == loadLib(g, ok) IN
  IF g1.threw THEN g1 ELSE SetConfig(g1, 5, TRUE)

\* WebUI.init() that opens the library and leaves option 5 alone.
WebUI_init_noconfig(g, ok) ==
  IF g.lib = 0 THEN loadLib(g, ok) ELSE g

\* WebUI.init()
WebUI_init(g, ok) ==
  IF g.lib = 0
  THEN LET g1 == loadLib(g, ok) IN
       IF g1.threw THEN g1 ELSE SetConfig(g1, 5, TRUE)
  ELSE g

\* Whether dlopen can be drawn as failing in this state.
LoadOutcomes == IF lib = 0 /\ loadFailures < MaxLoadFailures THEN BOOLEAN ELSE {TRUE}

\* ------------------------------------------------------------ the registry

\* The usize value n as the FFI layer presents it to JavaScript.
Usize(n) == IF ffiBigint THEN Big(n) ELSE Num(n)

\* windows.get(key): the object, or 0 for undefined.
WindowsGet(key) ==
  IF \E p \in windows : p[1] = key
  THEN (CHOOSE p \in windows : p[1] = key)[2]
  ELSE 0

\* windows.set(key, o)
WindowsSet(key, o) == { p \in windows : p[1] # key } \cup { <<key, o>> }

\* The key the constructor registers a window under.
RegistryKey_raw(w) == w

RegistryKey(w) == BigInt(w)

\* -------------------------------------------------------------- the thread

\* webui_wait() in place of the sleep: the thread stays inside the native call.
waitYields_native == FALSE

\* `await sleep(100)`: wait() gives the thread back between two polls.
waitYields == TRUE

\* The one JavaScript thread is free to run a callback or a continuation: it is
\* not inside webui_script or webui_interface_script_client, which are called
\* synchronously, and not kept by wait().
ThreadFree ==
  /\ scriptCall.pc # "native"
  /\ waitPc = "sleeping" => waitYields

\* The process is alive and its thread can take the next piece of JavaScript.
Running == proc = "running" /\ ThreadFree

\* ------------------------------------------------------------ construction

\* constructor(): ok is whether dlopen succeeds, h the number webui_new_window returns.
constructor(ok, h) ==
  LET g1 == WebUI_init(G, ok)
      g2 == IF g1.threw THEN g1 ELSE NativeCall(g1, "webui_new_window")
      w == Usize(h)
      o == Len(objs) + 1
  IN /\ SetG(g2)
     /\ IF g2.threw
        THEN UNCHANGED winVars
        ELSE /\ objs' = Append(objs, [lib |-> g1.lib, window |-> w, isFileHandler |-> FALSE])
             /\ live' = live \cup {h}
             /\ windows' = WindowsSet(RegistryKey(w), o)
             /\ UNCHANGED << destroyed, bound >>
     /\ UNCHANGED << ffiBigint, exitOnUnhandled, utilCall, invVars, waitVars, nativeVars, callVars >>

Construct ==
  /\ Running
  /\ Len(objs) < MaxObjs
  /\ \E ok \in LoadOutcomes, h \in (1..MaxHandle) \ live : constructor(ok, h)

\* Objects the application may still call: constructed and not destroyed.
Usable == { o \in 1..Len(objs) : o \notin destroyed }

\* A destroy() that deletes the entry of the object from the registry.
registryAfterDestroy_deleted(o) == { p \in windows : p[2] # o }

\* The registry after destroy(): the method does not touch it.
registryAfterDestroy(o) == windows

\* destroy(): webui_destroy frees the window number and the bindings made on it.
destroy(o) ==
  LET h == BigInt(objs[o].window).v
      g1 == NativeCall(G, "webui_destroy")
  IN /\ SetG(g1)
     /\ destroyed' = destroyed \cup {o}
     /\ live' = live \ {h}
     /\ bound' = { b \in bound : b[1] # h }
     /\ servers' = servers \ {h}
     /\ fileHandlers' = { f \in fileHandlers : f.window # h }
     /\ windows' = registryAfterDestroy(o)
     /\ UNCHANGED << objs, ffiBigint, exitOnUnhandled, utilCall, invVars, waitVars,
                     exitNow, callVars >>

Destroy ==
  /\ Running
  /\ \E o \in Usable : destroy(o)

\* bind(id, callback): the trampoline of object o is registered with the native
\* library for (window number, id), replacing an earlier one for the same pair.
bind(o, id) ==
  LET h == BigInt(objs[o].window).v
      g1 == NativeCall(G, "webui_interface_bind")
  IN /\ SetG(g1)
     /\ bound' = { b \in bound : ~(b[1] = h /\ b[2] = id) } \cup { <<h, id, o>> }
     /\ UNCHANGED << windows, objs, destroyed, live, ffiBigint, exitOnUnhandled, utilCall,
                     invVars, waitVars, nativeVars, callVars >>

Bind ==
  /\ Running
  /\ \E o \in Usable, id \in BindIds : bind(o, id)

\* A static method other than wait(): WebUI.init(), then its native call.
staticCall(fn, ok) ==
  LET g1 == WebUI_init(G, ok)
      g2 == IF g1.threw THEN g1
            ELSE IF fn = "setMultiClient" THEN SetConfig(g1, 3, TRUE)
            ELSE NativeCall(g1, StaticEntry(fn))
  IN /\ SetG(g2)
     /\ IF fn = "exit" /\ ~g2.threw
        THEN exitNow' = TRUE /\ servers' = {}
        ELSE UNCHANGED << exitNow, servers >>
     /\ UNCHANGED << ffiBigint, exitOnUnhandled, utilCall, winVars, invVars, waitVars,
                     fileHandlers, callVars >>

StaticCall ==
  /\ Running
  /\ \E fn \in StaticFns, ok \in LoadOutcomes : staticCall(fn, ok)

\* WebUI.clean(): WebUI.init(), then webui_clean, which frees what the native
\* library holds: the windows it shows, the bindings and the file handlers.
clean(ok) ==
  LET g1 == WebUI_init(G, ok)
      g2 == IF g1.threw THEN g1 ELSE NativeCall(g1, "webui_clean")
  IN /\ SetG(g2)
     /\ IF g2.threw
        THEN UNCHANGED << bound, servers, fileHandlers >>
        ELSE bound' = {} /\ servers' = {} /\ fileHandlers' = {}
     /\ UNCHANGED << windows, objs, destroyed, live, ffiBigint, exitOnUnhandled, utilCall,
                     invVars, waitVars, exitNow, callVars >>

Clean ==
  /\ Running
  /\ \E ok \in LoadOutcomes : clean(ok)

\* ------------------------------------------------------ the bind trampoline

\* Elements of the page that raise events.
Elements == {"sum"}

\* Event types the native library passes: WebUI.EventType.Callback.
EventTypes == {4}

\* The binding the native library delivers an event of window number h and
\* element el to: the one made for el, else the one made for all elements.
Route(h, el) ==
  IF \E b \in bound : b[1] = h /\ b[2] = el
  THEN { b \in bound : b[1] = h /\ b[2] = el }
  ELSE { b \in bound : b[1] = h /\ b[2] = "" }

InFlight == { i \in 1..Len(invs) : invs[i].state = "awaiting" }

\* typeof p === "bigint" ? Number(p) : Math.trunc(p)
ToNumber(p) == IF p.t = "bigint" THEN Number(p) ELSE MathTrunc(p)

\* The promise of invocation i rejects: nothing in the trampoline catches it.
Rejected(i) ==
  /\ unhandled' = unhandled \cup {i}
  /\ proc' = IF exitOnUnhandled THEN "exited" ELSE proc

\* The handler given to the bind() call that made binding b.
Callback(b) == << b[3], b[2] >>

\* A trampoline that lets through only the events of the element it was bound to.
callsHandler_matching(b, el, etype) == b[2] = el

\* Whether the trampoline calls its handler for the event: it tests nothing.
callsHandler(b, el, etype) == TRUE

\* The trampoline, from its entry to `await callback(e)`.  b is the binding the
\* native library calls, n the event number, syncThrow whether callback(e)
\* throws before it returns.
trampoline(b, el, etype, n, syncThrow) ==
  LET param_window == Usize(b[1])
      param_event_type == Usize(etype)
      param_event_number == Usize(n)
      win == param_window
      event_type == ToNumber(param_event_type)
      event_number == ToNumber(param_event_number)
      e == [ window |-> WindowsGet(win), eventType |-> event_type,
             eventNumber |-> event_number, element |-> el ]
      i == Len(invs) + 1
      calls == callsHandler(b, el, etype)
  IN /\ invs' = Append(invs, [ this |-> b[3], id |-> b[2], win |-> win,
                               param_event_number |-> param_event_number, e |-> e,
                               callback |-> IF calls THEN Callback(b) ELSE << >>,
                               state |-> IF ~calls THEN "dropped"
                                         ELSE IF syncThrow THEN "rejected" ELSE "awaiting",
                               value |-> Undefined, responses |-> <<>>,
                               accessed |-> <<>>, gets |-> <<>> ])
     /\ IF syncThrow /\ calls THEN Rejected(i) ELSE UNCHANGED << unhandled, proc >>
     /\ UNCHANGED << libVars, winVars, ffiBigint, exitOnUnhandled, utilCall, waitVars, nativeVars,
                     showCall, scriptCall, fileInvs >>

\* The native library raises an event of a live window, for one of elements and
\* of one of etypes: event numbers are distinct among the invocations of one
\* window that are not yet answered.
Dispatch(elements, etypes) ==
  /\ Running
  /\ Len(invs) < MaxInv
  /\ \E h \in live, el \in elements, etype \in etypes, n \in 0..MaxEventNumber,
        syncThrow \in BOOLEAN :
       /\ \A i \in InFlight : ~(invs[i].win.v = h /\ invs[i].e.eventNumber.v = n)
       /\ \E b \in Route(h, el) : trampoline(b, el, etype, n, syncThrow)
  /\ UNCHANGED pending

\* The calls of the page to a bound function.
Trampoline == Dispatch(Elements, EventTypes)

\* Every element of the page, "ping" one that no bind() call names, and the
\* event types WebUI.EventType.Connected and WebUI.EventType.Callback.
PageElements == {"sum", "ping"}
PageEventTypes == {1, 4}

\* The events of the page, calls and others.
TrampolineAny == Dispatch(PageElements, PageEventTypes)

\* The accessors of e.arg and the indexes the handlers pass.
ArgKinds == {"number", "string", "boolean"}
ArgIndexes == {0, 1}

\* Every accessor reading the argument as an integer.
ArgEntry_int(kind) == "webui_interface_get_int_at"

\* The native entry point each accessor calls.
ArgEntry(kind) ==
  CASE kind = "number" -> "webui_interface_get_int_at"
    [] kind = "string" -> "webui_interface_get_string_at"
    [] kind = "boolean" -> "webui_interface_get_bool_at"

\* The handler of invocation i calls e.arg.number(index), e.arg.string(index) or
\* e.arg.boolean(index): one native call, with BigInt(win), BigInt(event_number)
\* and BigInt(index) of the closure of the invocation.
argAccess(i, kind, index) ==
  LET get == [ entry |-> ArgEntry(kind), window |-> BigInt(invs[i].win).v,
               eventNumber |-> BigInt(invs[i].e.eventNumber).v,
               index |-> BigInt(Num(index)).v ]
  IN /\ invs' = [invs EXCEPT ![i].accessed = Append(@, [kind |-> kind, index |-> index]),
                             ![i].gets = Append(@, get)]
     /\ UNCHANGED << libVars, unhandled, proc, winVars, ffiBigint, exitOnUnhandled, utilCall,
                     waitVars, nativeVars, callVars >>

ArgCalls(i) == Len(invs[i].accessed)

RECURSIVE SumArgCalls(_)
SumArgCalls(n) == IF n = 0 THEN 0 ELSE ArgCalls(n) + SumArgCalls(n - 1)

HandlerReadsArg ==
  /\ Running
  /\ SumArgCalls(Len(invs)) < MaxArgCalls
  /\ \E i \in InFlight, kind \in ArgKinds, index \in ArgIndexes : argAccess(i, kind, index)

\* The event number of the invocation entered last, whichever invocation resumes.
ResponseEventNumber_shared(i) == BigInt(invs[Len(invs)].e.eventNumber)

\* BigInt(event_number): event_number is a local of invocation i.
ResponseEventNumber(i) == BigInt(invs[i].e.eventNumber)

\* The rest of the trampoline, once the awaited handler result v is there:
\* result = v ?? "", then webui_interface_set_response.
resume(i, v) ==
  LET result == Coalesce(v, Str(<<>>))
      g1 == NativeCall(G, "webui_interface_set_response")
      response == [ window |-> BigInt(objs[invs[i].this].window).v,
                    eventNumber |-> ResponseEventNumber(i).v,
                    payload |-> toCString(result) ]
  IN /\ SetG(g1)
     /\ invs' = [invs EXCEPT ![i].state = "responded", ![i].value = v,
                             ![i].responses = Append(@, response)]
     /\ UNCHANGED << unhandled, proc, winVars, ffiBigint, exitOnUnhandled, utilCall, waitVars,
                     nativeVars, callVars >>

HandlerReturns ==
  /\ Running
  /\ \E i \in InFlight, v \in HandlerResults : resume(i, v)

\* The promise the handler returned rejects: `await` throws in the trampoline.
reject(i) ==
  /\ invs' = [invs EXCEPT ![i].state = "rejected"]
  /\ Rejected(i)
  /\ UNCHANGED << libVars, winVars, ffiBigint, exitOnUnhandled, utilCall, waitVars, nativeVars, callVars >>

HandlerRejects ==
  /\ Running
  /\ \E i \in InFlight : reject(i)

\* ------------------------------------------------------------ WebUI.wait()

\* wait() that leaves its loop when the application is still running.
waitLeaves_inverted(running) == running

\* if (!webui_interface_is_app_running()) break
waitLeaves(running) == ~running

\* wait(), from the call to the first `await sleep(100)`.
waitStart(ok) ==
  LET g1 == WebUI_init(G, ok) IN
  /\ SetG(g1)
  /\ IF g1.threw
     THEN UNCHANGED waitVars
     ELSE /\ waitPc' = "sleeping"
          /\ waitPolls' = <<>>
          /\ waitNative' = {}
  /\ UNCHANGED << winVars, invVars, ffiBigint, exitOnUnhandled, utilCall, nativeVars, callVars >>

WaitStart ==
  /\ Running
  /\ waitPc # "sleeping"
  /\ \E ok \in LoadOutcomes : waitStart(ok)

\* wait(), from the end of one sleep to the next: running is what
\* webui_interface_is_app_running returns.
waitPoll(running) ==
  LET g1 == NativeCall(G, "webui_interface_is_app_running") IN
  /\ SetG(g1)
  /\ waitPolls' = Append(waitPolls, running)
  /\ waitNative' = waitNative \cup {"webui_interface_is_app_running"}
  /\ waitPc' = IF waitLeaves(running) THEN "resolved" ELSE "sleeping"
  /\ UNCHANGED << winVars, invVars, ffiBigint, exitOnUnhandled, utilCall, nativeVars, callVars >>

RunningPolls == Cardinality({ k \in 1..Len(waitPolls) : waitPolls[k] })

WaitPoll ==
  /\ Running
  /\ waitPc = "sleeping"
  /\ \E running \in BOOLEAN :
       /\ running => RunningPolls < MaxPolls
       /\ waitPoll(running)

\* ------------------------------------------- setFileHandler(), show(), close()

\* The two webui_set_config calls of setFileHandler, in the order of the code.
FileHandlerConfig_cookiesOnly(g) == SetConfig(g, 4, FALSE)

FileHandlerConfig(g) == SetConfig(SetConfig(g, 0, FALSE), 4, FALSE)

\* setFileHandler(callback): the config writes, the flag, then the registration
\* of the file-handler trampoline of object o, which replaces an earlier one of
\* the window.  The registration records the options as they are when it is made.
setFileHandler(o) ==
  LET h == BigInt(objs[o].window).v
      g1 == FileHandlerConfig(G)
  IN /\ SetG(g1)
     /\ objs' = [objs EXCEPT ![o].isFileHandler = TRUE]
     /\ fileHandlers' = { f \in fileHandlers : f.window # h }
                          \cup { [ window |-> h, this |-> o, config |-> g1.config ] }
     /\ UNCHANGED << windows, destroyed, live, bound, ffiBigint, exitOnUnhandled, utilCall,
                     invVars, waitVars, servers, exitNow, callVars >>

SetFileHandler ==
  /\ Running
  /\ \E o \in Usable : setFileHandler(o)

\* close(): webui_close ends the window the native library shows for the number.
close(o) ==
  LET h == BigInt(objs[o].window).v
  IN /\ servers' = servers \ {h}
     /\ UNCHANGED << libVars, winVars, ffiBigint, exitOnUnhandled, utilCall, invVars, waitVars,
                     exitNow, fileHandlers, callVars >>

Close ==
  /\ Running
  /\ \E o \in Usable : close(o)

\* The iterations of the connection loop of show() and showBrowser().
PollLimit == 120

ShowKinds == {"show", "showBrowser"}

ShowEntry(kind) == IF kind = "show" THEN "webui_show" ELSE "webui_show_browser"

\* One show() or showBrowser() call is followed at a time.  i is the loop
\* variable, sleeps the 250 ms sleeps made, queries the webui_is_shown calls
\* made, shown whether one of them answered true, last the latest answer.
NoShow ==
  [ pc |-> "idle", this |-> 0, kind |-> "show", entry |-> "", fileHandler |-> FALSE,
    status |-> FALSE,
    i |-> 0, sleeps |-> 0, queries |-> 0, shown |-> FALSE, last |-> FALSE, error |-> "" ]

ShowSettled == showCall.pc \in {"idle", "resolved", "rejected"}

\* show(content) or showBrowser(content, browser), up to the await of the native
\* call.  started is whether the native library starts the browser, the status
\* the call will return.
showStart(o, kind, started) ==
  LET h == BigInt(objs[o].window).v
  IN /\ showCall' = [ NoShow EXCEPT !.pc = "native", !.this = o, !.kind = kind,
                                    !.entry = ShowEntry(kind),
                                    !.fileHandler = objs[o].isFileHandler,
                                    !.status = started ]
     /\ servers' = IF started THEN servers \cup {h} ELSE servers
     /\ UNCHANGED << libVars, winVars, ffiBigint, exitOnUnhandled, utilCall, invVars, waitVars, exitNow,
                     fileHandlers, pending, scriptCall, fileInvs >>

ShowStart ==
  /\ Running
  /\ ShowSettled
  /\ \E o \in Usable, kind \in ShowKinds, started \in BOOLEAN : showStart(o, kind, started)

\* this.isShown answered q.
isShown(c, q) == [c EXCEPT !.queries = @ + 1, !.last = q, !.shown = @ \/ q]

\* The check after the loop, resolving whatever the query answers.
connected_unchecked(c, q) == [isShown(c, q) EXCEPT !.pc = "resolved"]

\* if (!this.isShown) throw new WebUIError(`unable to connect to the browser`)
connected(c, q) ==
  IF ~q
  THEN [isShown(c, q) EXCEPT !.pc = "rejected", !.error = "unable to connect to the browser"]
  ELSE [isShown(c, q) EXCEPT !.pc = "resolved"]

\* A loop test that lets one more iteration through.
loopTest_inclusive(i) == i <= PollLimit

\* i < 120
loopTest(i) == i < PollLimit

\* The loop from its test to the next sleep, or to the end of the call: q1 is
\* what the query of the loop body answers, q2 what the query after the loop does.
connectionPoll(c, q1, q2) ==
  IF loopTest(c.i)
  THEN IF ~q1
       THEN [isShown(c, q1) EXCEPT !.pc = "sleeping", !.sleeps = @ + 1]
       ELSE connected(isShown(c, q1), q2)
  ELSE connected(c, q2)

\* A status test that lets a false status through.
startFailed_never(status) == FALSE

\* if (!status) throw new WebUIError(`unable to start the browser`)
startFailed(status) == ~status

\* show() that waits for the connection whatever the flag.
skipsConnection_never(o, kind) == FALSE

\* if (!this.#isFileHandler) { ... } in show(); showBrowser() has no such test.
skipsConnection(o, kind) == kind = "show" /\ objs[o].isFileHandler

\* A show that closes its window when it fails, which drops its bindings.
boundAfterShow_closed(c) ==
  IF c.pc = "rejected" THEN { b \in bound : b[3] # c.this } ELSE bound

\* The bindings after a step of show() or showBrowser(): neither touches them.
boundAfterShow(c) == bound

\* The call resumes with the status of the native call.
showReturn(q1, q2) ==
  LET c == showCall
      c1 == IF skipsConnection(c.this, c.kind) THEN [c EXCEPT !.pc = "resolved"]
            ELSE IF startFailed(c.status)
            THEN [c EXCEPT !.pc = "rejected", !.error = "unable to start the browser"]
            ELSE connectionPoll(c, q1, q2)
  IN /\ showCall' = c1
     /\ bound' = boundAfterShow(c1)
     /\ UNCHANGED << libVars, windows, objs, destroyed, live, ffiBigint, exitOnUnhandled, utilCall,
                     invVars, waitVars, nativeVars, pending, scriptCall, fileInvs >>

ShowReturn ==
  /\ Running
  /\ showCall.pc = "native"
  /\ \E q1, q2 \in BOOLEAN : showReturn(q1, q2)

\* The call resumes after a sleep: i++, then the loop test.
showWake(q1, q2) ==
  LET c1 == connectionPoll([showCall EXCEPT !.i = @ + 1], q1, q2)
  IN /\ showCall' = c1
     /\ bound' = boundAfterShow(c1)
     /\ UNCHANGED << libVars, windows, objs, destroyed, live, ffiBigint, exitOnUnhandled, utilCall,
                     invVars, waitVars, nativeVars, pending, scriptCall, fileInvs >>

ShowWake ==
  /\ Running
  /\ showCall.pc = "sleeping"
  /\ \E q1, q2 \in BOOLEAN : showWake(q1, q2)

\* ------------------------------------------------ events across the threads

\* The native library calls a trampoline from one of its own threads: the call
\* waits in pending until the JavaScript thread runs it.  awaited is whether the
\* page script of the outstanding script() call made the call and waits for
\* its answer; wait notes whether a wait() was pending at the time.
emit(b, el, etype, n, awaited) ==
  LET ev == [ b |-> b, el |-> el, etype |-> etype, n |-> n, wait |-> waitPc = "sleeping" ] IN
  /\ pending' = pending \cup {ev}
  /\ scriptCall' = IF awaited THEN [scriptCall EXCEPT !.awaits = @ \cup {ev}] ELSE scriptCall
  /\ UNCHANGED << libVars, winVars, ffiBigint, exitOnUnhandled, utilCall, invVars, waitVars,
                  nativeVars, showCall, fileInvs >>

Emit ==
  /\ proc = "running"
  /\ Len(invs) + Cardinality(pending) < MaxEmit
  /\ \E h \in live, el \in Elements, etype \in EventTypes, n \in 0..MaxEventNumber,
        awaited \in BOOLEAN :
       /\ awaited => (scriptCall.pc = "native" /\ BigInt(objs[scriptCall.this].window).v = h)
       /\ \A i \in InFlight : ~(invs[i].win.v = h /\ invs[i].e.eventNumber.v = n)
       /\ \A ev \in pending : ~(ev.b[1] = h /\ ev.n = n)
       /\ \E b \in Route(h, el) : emit(b, el, etype, n, awaited)

\* The JavaScript thread runs a trampoline call that was waiting.
Deliver ==
  /\ Running
  /\ \E ev \in pending, syncThrow \in BOOLEAN :
       /\ trampoline(ev.b, ev.el, ev.etype, ev.n, syncThrow)
       /\ pending' = pending \ {ev}

\* ------------------------------------------------ script(), scriptClient()

\* options.timeout, in seconds: 0 is no timeout.
ScriptTimeouts == {0, 30}

\* What the native library writes at the start of the zero-filled buffer.
ScriptResponses == { <<>>, <<49, 48>>, <<195, 169>>, <<49, 48, 33>> }

\* new Uint8Array(n)
RECURSIVE Zeros(_)
Zeros(n) == IF n <= 0 THEN <<>> ELSE <<0>> \o Zeros(n - 1)

\* value.findIndex((byte) => byte === 0x00)
findIndex(value) ==
  IF \E k \in 1..Len(value) : value[k] = 0
  THEN (CHOOSE k \in 1..Len(value) : value[k] = 0 /\ \A m \in 1..(k - 1) : value[m] # 0) - 1
  ELSE -1

\* value.slice(0, end): a negative end counts from the end of the array.
slice(value, end) ==
  LET e == IF end < 0 THEN Len(value) + end ELSE end
  IN IF e <= 0 THEN <<>> ELSE SubSeq(value, 1, IF e > Len(value) THEN Len(value) ELSE e)

\* The UTF-16 code units of a code point.
CodeUnits(c) ==
  IF c < 65536 THEN <<c>>
  ELSE << 55296 + ((c - 65536) \div 1024), 56320 + ((c - 65536) % 1024) >>

\* The UTF-8 decoder of TextDecoder: c is the code point being assembled,
\* needed the continuation bytes it still lacks, lower..upper the range the
\* next byte must be in.  U+FFFD stands for each ill-formed subsequence.
RECURSIVE Utf8Decode(_, _, _, _, _)
Utf8Decode(bytes, c, needed, lower, upper) ==
  IF bytes = <<>> THEN (IF needed # 0 THEN <<65533>> ELSE <<>>)
  ELSE LET b == bytes[1]
           rest == Tail(bytes)
       IN IF needed = 0
          THEN IF b < 128 THEN <<b>> \o Utf8Decode(rest, 0, 0, 128, 191)
               ELSE IF b >= 194 /\ b <= 223 THEN Utf8Decode(rest, b - 192, 1, 128, 191)
               ELSE IF b >= 224 /\ b <= 239
               THEN Utf8Decode(rest, b - 224, 2, IF b = 224 THEN 160 ELSE 128,
                               IF b = 237 THEN 159 ELSE 191)
               ELSE IF b >= 240 /\ b <= 244
               THEN Utf8Decode(rest, b - 240, 3, IF b = 240 THEN 144 ELSE 128,
                               IF b = 244 THEN 143 ELSE 191)
               ELSE <<65533>> \o Utf8Decode(rest, 0, 0, 128, 191)
          ELSE IF b < lower \/ b > upper
          THEN <<65533>> \o Utf8Decode(bytes, 0, 0, 128, 191)
          ELSE IF needed = 1
          THEN CodeUnits(c * 64 + (b - 128)) \o Utf8Decode(rest, 0, 0, 128, 191)
          ELSE Utf8Decode(rest, c * 64 + (b - 128), needed - 1, 128, 191)

\* new TextDecoder().decode(bytes): ignoreBOM is false, a leading byte order
\* mark (U+FEFF) is not part of the result.
TextDecode(bytes) ==
  LET units == Utf8Decode(bytes, 0, 0, 128, 191)
  IN IF units # <<>> /\ units[1] = 65279 THEN Tail(units) ELSE units

\* fromCString(value)
fromCString(value) == TextDecode(slice(value, findIndex(value)))

ScriptEntry(client) == IF client THEN "webui_interface_script_client" ELSE "webui_script"

NoScript ==
  [ pc |-> "idle", this |-> 0, client |-> FALSE, entry |-> "", timeout |-> 0, awaits |-> {},
    status |-> FALSE, buffer |-> <<>>, response |-> <<>> ]

\* script(script, options) or scriptClient(e, script, options), up to the native
\* call: the call is synchronous, the thread is inside it until it returns.
scriptStart(o, client, timeout) ==
  /\ scriptCall' = [ NoScript EXCEPT !.pc = "native", !.this = o, !.client = client,
                                     !.entry = ScriptEntry(client), !.timeout = timeout ]
  /\ UNCHANGED << libVars, winVars, ffiBigint, exitOnUnhandled, utilCall, invVars, waitVars, nativeVars,
                  showCall, pending, fileInvs >>

ScriptStart ==
  /\ Running
  /\ \E o \in Usable, client \in BOOLEAN, timeout \in ScriptTimeouts :
       /\ client => InFlight # {}
       /\ scriptStart(o, client, timeout)

\* A call that resolves whatever the status.
scriptOutcome_resolves(status) == "resolved"

\* if (status) return Promise.resolve(response); return Promise.reject(response)
scriptOutcome(status) == IF status THEN "resolved" ELSE "rejected"

\* The native call returns status with written at the start of the buffer; the
\* promise resolves or rejects with the decoded buffer.
scriptReturn(status, written) ==
  LET buffer == written \o Zeros(ScriptBufferSize - Len(written))
      response == fromCString(buffer)
  IN /\ scriptCall' = [ scriptCall EXCEPT !.pc = scriptOutcome(status),
                                          !.status = status, !.buffer = buffer,
                                          !.response = response ]
     /\ UNCHANGED << libVars, winVars, ffiBigint, exitOnUnhandled, utilCall, invVars, waitVars,
                     nativeVars, showCall, pending, fileInvs >>

\* The native library returns when the page script has ended, or when the
\* timeout has run out: a page script that waits for the answer of a backend
\* call does not end before the answer, and there is no answer while the
\* thread is inside the call.
ScriptReturn ==
  /\ proc = "running"
  /\ scriptCall.pc = "native"
  /\ scriptCall.awaits # {} => scriptCall.timeout > 0
  /\ \E status \in BOOLEAN, written \in ScriptResponses :
       /\ scriptCall.awaits # {} => ~status
       /\ scriptReturn(status, written)

\* ------------------------------------------------ the file-handler trampoline

\* A Uint8Array with the bytes b.
Bytes(b) == [t |-> "bytes", b |-> b]

\* What a file handler resolves with: a string or a Uint8Array.
FileResponses == { Str(<<>>), Str(<<79, 75>>), Str(<<104, 233>>), Bytes(<<72, 105, 0>>) }

\* Pointers: null, a block webui_malloc returned, a buffer of the runtime.
NullPointer == [ space |-> "null", addr |-> 0 ]
NativePointer(k) == [ space |-> "native", addr |-> k ]
ManagedPointer == [ space |-> "managed", addr |-> 0 ]

\* user_response.length: UTF-16 code units of a string, bytes of a Uint8Array.
ResponseLength(r) == IF r.t = "string" THEN Len(r.s) ELSE Len(r.b)

\* The bytes copied into the native buffer.
ResponseBytes(r) == IF r.t = "string" THEN toCString(r) ELSE r.b

FileInFlight == { i \in 1..Len(fileInvs) : fileInvs[i].state = "awaiting" }

\* The blocks webui_malloc has returned so far.
Allocated == { fileInvs[i].malloc.ptr.addr : i \in { k \in 1..Len(fileInvs) : fileInvs[k].malloc.called } }

\* The file-handler trampoline of registration f, from its entry to
\* `await callback(url_obj)`.
fileTrampoline(f, syncThrow) ==
  LET i == Len(fileInvs) + 1 IN
  /\ fileInvs' = Append(fileInvs,
       [ this |-> f.this, window |-> f.window,
         state |-> IF syncThrow THEN "rejected" ELSE "awaiting",
         value |-> Str(<<>>),
         malloc |-> [ called |-> FALSE, size |-> 0, ptr |-> NullPointer ],
         written |-> <<>>, responses |-> <<>> ])
  /\ IF syncThrow THEN Rejected(0 - i) ELSE UNCHANGED << unhandled, proc >>
  /\ UNCHANGED << libVars, winVars, ffiBigint, exitOnUnhandled, utilCall, invs, waitVars, nativeVars,
                  showCall, pending, scriptCall >>

FileTrampoline ==
  /\ Running
  /\ Len(fileInvs) < MaxFileInv
  /\ \E f \in fileHandlers, syncThrow \in BOOLEAN : fileTrampoline(f, syncThrow)

\* Deno.UnsafePointer.of(user_response): the buffer of the runtime itself.
responsePointer_managed(webui_buffer) == ManagedPointer

\* The pointer handed to webui_interface_set_response_file_handler.
responsePointer(webui_buffer) == webui_buffer

\* The rest of the trampoline, once the handler result r is there: webui_malloc
\* returns webui_buffer; a null pointer throws, else the copy and the response.
fileResume(i, r, webui_buffer) ==
  LET malloc == [ called |-> TRUE, size |-> ResponseLength(r), ptr |-> webui_buffer ]
      response == [ window |-> BigInt(objs[fileInvs[i].this].window).v,
                    pointer |-> responsePointer(webui_buffer),
                    length |-> ResponseLength(r) ]
  IN IF webui_buffer = NullPointer
     THEN /\ fileInvs' = [fileInvs EXCEPT ![i].state = "failed", ![i].value = r,
                                          ![i].malloc = malloc]
          /\ Rejected(0 - i)
          /\ UNCHANGED << libVars, winVars, ffiBigint, exitOnUnhandled, utilCall, invs, waitVars, nativeVars,
                          showCall, pending, scriptCall >>
     ELSE /\ fileInvs' = [fileInvs EXCEPT ![i].state = "responded", ![i].value = r,
                                          ![i].malloc = malloc,
                                          ![i].written = ResponseBytes(r),
                                          ![i].responses = Append(@, response)]
          /\ UNCHANGED << libVars, winVars, ffiBigint, exitOnUnhandled, utilCall, invVars, waitVars,
                          nativeVars, showCall, pending, scriptCall >>

FileHandlerResolves ==
  /\ Running
  /\ \E i \in FileInFlight, r \in FileResponses,
        webui_buffer \in { NullPointer, NativePointer(Cardinality(Allocated) + 1) } :
       fileResume(i, r, webui_buffer)

\* The promise the file handler returned rejects.
fileReject(i) ==
  /\ fileInvs' = [fileInvs EXCEPT ![i].state = "rejected"]
  /\ Rejected(0 - i)
  /\ UNCHANGED << libVars, winVars, ffiBigint, exitOnUnhandled, utilCall, invs, waitVars, nativeVars,
                  showCall, pending, scriptCall >>

FileHandlerRejects ==
  /\ Running
  /\ \E i \in FileInFlight : fileReject(i)

\* ------------------------------------------------ toCString, fromCString

\* UTF-16 code units of the strings converted: NUL, "h", "\u00e9", the two
\* halves of the pair of U+1F600, and U+FEFF.
StringUnits == {0, 104, 233, 55357, 56832, 65279}

Strings == UNION { [1..n -> StringUnits] : n \in 0..MaxStrLen }

\* Bytes of the buffers decoded: NUL, "H", and the two bytes of "\u00e9".
BufferBytes == {0, 72, 195, 169}

Buffers == UNION { [1..n -> BufferBytes] : n \in 0..MaxBufLen }

\* fromCString(toCString(s))
roundTrip(s) ==
  /\ utilCall' = [ fn |-> "roundTrip", s |-> s, bytes |-> toCString(Str(s)),
                   result |-> fromCString(toCString(Str(s))) ]
  /\ UNCHANGED windowVars

RoundTrip ==
  /\ Running
  /\ \E s \in Strings : roundTrip(s)

\* fromCString(value)
decode(value) ==
  /\ utilCall' = [ fn |-> "fromCString", value |-> value, result |-> fromCString(value) ]
  /\ UNCHANGED windowVars

Decode ==
  /\ Running
  /\ \E value \in Buffers : decode(value)

\* ------------------------------------------------ the library path

\* Deno.build.os and Deno.build.arch: "freebsd" stands for the systems the
\* default branches take, "riscv64" for an architecture without a library.
LoaderOS == {"windows", "darwin", "linux", "freebsd"}
LoaderArchs == {"x86_64", "aarch64", "riscv64"}

\* getBaseLibName() without the validation of the architecture.
getBaseLibName_unchecked(os, arch) ==
  [ threw |-> FALSE, error |-> "",
    baseName |-> CASE os = "windows" -> "webui-2.dll"
                   [] os = "darwin" -> "libwebui-2.dylib"
                   [] OTHER -> "libwebui-2.so" ]

\* getBaseLibName(): the file name for the system, an Error for an
\* architecture other than x86_64 and aarch64.
getBaseLibName(os, arch) ==
  IF arch # "x86_64" /\ arch # "aarch64"
  THEN [ threw |-> TRUE, error |-> "Unsupported architecture", baseName |-> "" ]
  ELSE [ threw |-> FALSE, error |-> "",
         baseName |-> CASE os = "windows" -> "webui-2.dll"
                        [] os = "darwin" -> "libwebui-2.dylib"
                        [] OTHER -> "libwebui-2.so" ]

\* archMap[Deno.build.arch]: "" stands for undefined.
archMap(arch) ==
  CASE arch = "x86_64" -> "x64"
    [] arch = "aarch64" -> "arm64"
    [] OTHER -> ""

\* The cache directory the environment names for the system.
StandardCacheDir(os) ==
  CASE os = "windows" -> "LOCALAPPDATA"
    [] os = "darwin" -> "HOME/Library/Caches"
    [] OTHER -> "XDG_CACHE_HOME"

\* getVersionDirName(): useNightly is false.
VersionDirName == "2.5.0-beta.3"

\* The evaluation of the module that exports libPath: io is the file-system
\* and network operations made so far, failed the one that threw.
NoLibPath ==
  [ fn |-> "libPath", os |-> "", arch |-> "", pc |-> "", baseName |-> "", dir |-> "",
    io |-> <<>>, failed |-> "", cached |-> FALSE, path |-> <<>>, error |-> "" ]

\* An operation of the evaluation throws: nothing catches it.
LibPathThrows(c, op) == [c EXCEPT !.pc = "rejected", !.failed = op, !.error = "io"]

\* join(versionCacheDir, baseLibName)
TargetLibPath(c) == << c.dir, "deno_webui", VersionDirName, c.baseName >>

\* getBaseLibName(), then ensureWebUiLib(baseLibName) up to its first await:
\* env is whether the environment names a cache directory.
libPathStart(os, arch, env) ==
  LET b == getBaseLibName(os, arch)
      c == [ NoLibPath EXCEPT !.os = os, !.arch = arch, !.baseName = b.baseName ]
  IN /\ utilCall' =
          IF b.threw THEN [c EXCEPT !.pc = "rejected", !.error = b.error]
          ELSE IF env THEN [c EXCEPT !.pc = "mkdirBase", !.dir = StandardCacheDir(os)]
          ELSE [c EXCEPT !.pc = "makeTempDir"]
     /\ UNCHANGED windowVars

LibPathStart ==
  /\ Running
  /\ utilCall = NoUtil
  /\ \E os \in LoaderOS, arch \in LoaderArchs, env \in BOOLEAN : libPathStart(os, arch, env)

\* await Deno.makeTempDir({ prefix: "deno_webui_cache_base_" })
makeTempDir(ok) ==
  LET c == [utilCall EXCEPT !.io = Append(@, "Deno.makeTempDir")]
  IN /\ utilCall' = IF ok THEN [c EXCEPT !.pc = "mkdirBase", !.dir = "deno_webui_cache_base_"]
                     ELSE LibPathThrows(c, "Deno.makeTempDir")
     /\ UNCHANGED windowVars

MakeTempDir ==
  /\ Running
  /\ utilCall.fn = "libPath" /\ utilCall.pc = "makeTempDir"
  /\ \E ok \in BOOLEAN : makeTempDir(ok)

\* await Deno.mkdir(webuiBaseCacheDir, { recursive: true })
mkdirBase(ok) ==
  LET c == [utilCall EXCEPT !.io = Append(@, "Deno.mkdir")]
  IN /\ utilCall' = IF ok THEN [c EXCEPT !.pc = "mkdirVersion"]
                     ELSE LibPathThrows(c, "Deno.mkdir")
     /\ UNCHANGED windowVars

MkdirBase ==
  /\ Running
  /\ utilCall.fn = "libPath" /\ utilCall.pc = "mkdirBase"
  /\ \E ok \in BOOLEAN : mkdirBase(ok)

\* await Deno.mkdir(versionCacheDir, { recursive: true })
mkdirVersion(ok) ==
  LET c == [utilCall EXCEPT !.io = Append(@, "Deno.mkdir")]
  IN /\ utilCall' = IF ok THEN [c EXCEPT !.pc = "exists"]
                     ELSE LibPathThrows(c, "Deno.mkdir")
     /\ UNCHANGED windowVars

MkdirVersion ==
  /\ Running
  /\ utilCall.fn = "libPath" /\ utilCall.pc = "mkdirVersion"
  /\ \E ok \in BOOLEAN : mkdirVersion(ok)

\* if (await exists(targetLibPath)) return targetLibPath; then the lookup of
\* the architecture in archMap, which throws when it finds none.
libExists(found) ==
  LET c == [utilCall EXCEPT !.io = Append(@, "exists")]
  IN /\ utilCall' =
          IF found THEN [c EXCEPT !.pc = "resolved", !.cached = TRUE, !.path = TargetLibPath(c)]
          ELSE IF archMap(c.arch) = ""
          THEN [c EXCEPT !.pc = "rejected", !.error = "Unsupported architecture"]
          ELSE [c EXCEPT !.pc = "download"]
     /\ UNCHANGED windowVars

LibExists ==
  /\ Running
  /\ utilCall.fn = "libPath" /\ utilCall.pc = "exists"
  /\ \E found \in BOOLEAN : libExists(found)

\* await downloadAndExtractLibrary(...): ok is whether the archive is fetched
\* and the library written; when not, the files are removed and the error is
\* thrown again.
download(ok) ==
  LET c == [utilCall EXCEPT !.io = @ \o << "Deno.mkdir", "fetch" >>]
  IN /\ utilCall' =
          IF ok THEN [c EXCEPT !.pc = "resolved", !.path = TargetLibPath(c),
                               !.io = @ \o << "Deno.writeFile", "Deno.writeFile", "Deno.remove" >>]
          ELSE [LibPathThrows(c, "downloadAndExtractLibrary") EXCEPT
                  !.io = @ \o << "Deno.remove", "Deno.remove" >>]
     /\ UNCHANGED windowVars

Download ==
  /\ Running
  /\ utilCall.fn = "libPath" /\ utilCall.pc = "download"
  /\ \E ok \in BOOLEAN : download(ok)

\* ------------------------------------------------ wait() and the native library

\* What webui_interface_is_app_running answers: a window is being shown and
\* webui_exit has not been called.
NativeAppRunning == ~exitNow /\ servers # {}

\* wait(), from the end of one sleep to the next, with the answer of the
\* native library as it stands.
WaitPollNative ==
  /\ Running
  /\ waitPc = "sleeping"
  /\ NativeAppRunning => RunningPolls < MaxPolls
  /\ waitPoll(NativeAppRunning)

\* ------------------------------------------------------------ specification

Init ==
  /\ lib = 0
  /\ opens = 0
  /\ loadFailures = 0
  /\ config = [ option \in 0..5 |-> "unset" ]
  /\ cfg5Writes = 0
  /\ called = {}
  /\ early = {}
  /\ undefinedCalls = {}
  /\ ffiBigint \in BOOLEAN
  /\ windows = {}
  /\ objs = <<>>
  /\ destroyed = {}
  /\ live = {}
  /\ bound = {}
  /\ invs = <<>>
  /\ unhandled = {}
  /\ proc = "running"
  /\ exitOnUnhandled \in BOOLEAN
  /\ waitPc = "idle"
  /\ waitPolls = <<>>
  /\ waitNative = {}
  /\ servers = {}
  /\ exitNow = FALSE
  /\ fileHandlers = {}
  /\ showCall = NoShow
  /\ pending = {}
  /\ scriptCall = NoScript
  /\ fileInvs = <<>>
  /\ utilCall = NoUtil

\* Windows and bindings.
NextWindows ==
  \/ Construct
  \/ Destroy
  \/ Bind

SpecWindows == Init /\ [][NextWindows]_vars

\* Windows, bindings and the events delivered to them.
Next ==
  \/ Construct
  \/ Destroy
  \/ Bind
  \/ Trampoline
  \/ HandlerReturns
  \/ HandlerRejects

Spec == Init /\ [][Next]_vars

\* Windows, bindings, the static calls and the wait() loop.
NextLifecycle ==
  \/ Construct
  \/ Destroy
  \/ Bind
  \/ StaticCall
  \/ WaitStart
  \/ WaitPoll

SpecLifecycle == Init /\ [][NextLifecycle]_vars

\* Windows, setFileHandler(), show() and showBrowser().
NextShow ==
  \/ Construct
  \/ SetFileHandler
  \/ ShowStart
  \/ ShowReturn
  \/ ShowWake

SpecShow == Init /\ [][NextShow]_vars

\* Windows shown and closed, WebUI.exit() and wait() against the native library.
NextWait ==
  \/ Construct
  \/ ShowStart
  \/ ShowReturn
  \/ Close
  \/ StaticCall
  \/ WaitStart
  \/ WaitPollNative

SpecWait == Init /\ [][NextWait]_vars

\* Events the native library raises from its threads while wait() is pending.
NextWaitEvents ==
  \/ Construct
  \/ Bind
  \/ Emit
  \/ Deliver
  \/ HandlerReturns
  \/ WaitStart
  \/ WaitPoll

SpecWaitEvents == Init /\ [][NextWaitEvents]_vars

\* Events the native library raises from its threads while a script() or
\* scriptClient() call is outstanding.
NextScript ==
  \/ Construct
  \/ Bind
  \/ Emit
  \/ Deliver
  \/ HandlerReturns
  \/ ScriptStart
  \/ ScriptReturn

SpecScript == Init /\ [][NextScript]_vars

\* Windows, file handlers and the file requests made to them.
NextFiles ==
  \/ Construct
  \/ Destroy
  \/ SetFileHandler
  \/ FileTrampoline
  \/ FileHandlerResolves
  \/ FileHandlerRejects

SpecFiles == Init /\ [][NextFiles]_vars

\* Events and the arguments their handlers read.
NextArgs ==
  \/ Construct
  \/ Bind
  \/ Trampoline
  \/ HandlerReadsArg

SpecArgs == Init /\ [][NextArgs]_vars

\* Bindings and the events the native library routes to them.
NextRouting ==
  \/ Construct
  \/ Bind
  \/ TrampolineAny

SpecRouting == Init /\ [][NextRouting]_vars

\* Every operation on windows that is not their construction, and construction.
NextRegistry ==
  \/ Construct
  \/ Destroy
  \/ Bind
  \/ Close
  \/ ShowStart
  \/ Emit
  \/ Deliver
  \/ StaticCall
  \/ Clean

SpecRegistry == Init /\ [][NextRegistry]_vars

\* Windows with bindings, show() and showBrowser() and their repetition.
NextRetry ==
  \/ Construct
  \/ Bind
  \/ ShowStart
  \/ ShowReturn
  \/ ShowWake

SpecRetry == Init /\ [][NextRetry]_vars

\* The string conversions of utils.ts.
NextStrings ==
  \/ RoundTrip
  \/ Decode

SpecStrings == Init /\ [][NextStrings]_vars

\* The resolution of the path of the native library.
NextLoader ==
  \/ LibPathStart
  \/ MakeTempDir
  \/ MkdirBase
  \/ MkdirVersion
  \/ LibExists
  \/ Download

SpecLoader == Init /\ [][NextLoader]_vars

\* ------------------------------------------------------------------ claims

Invocations == 1..Len(invs)

Answered(i) == invs[i].state = "responded"

\* The window number of the object whose bind() made the trampoline of i.
TrampolineWindow(i) == objs[invs[i].this].window.v

\* The string form of a handler result: "" for undefined and null.
StringForm(v) == IF v.t \in {"undefined", "null"} THEN <<>> ELSE JsToString(v)

\* The NUL-terminated UTF-8 bytes of a string.
CBytes(str) == TextEncode(str) \o <<0>>

\* C1: every invocation whose handler completed with a value v has exactly one
\* webui_interface_set_response call, made with the window number of the
\* binding's window, the native event number of the invocation, and the string
\* form of v (the empty string for undefined and null) as payload.
C1_ResponseOnce ==
  \A i \in Invocations :
    Answered(i) =>
      /\ Len(invs[i].responses) = 1
      /\ invs[i].responses[1].window = TrampolineWindow(i)
      /\ invs[i].responses[1].eventNumber = invs[i].param_event_number.v
      /\ invs[i].responses[1].payload = CBytes(StringForm(invs[i].value))

\* A handler returned the number 10 for event 1 and "10" was the response; another
\* returned nothing and the empty string was the response.
C1_Witness ==
  /\ \E i \in Invocations :
       /\ Answered(i)
       /\ invs[i].value = Num(10)
       /\ invs[i].responses =
            << [ window |-> TrampolineWindow(i), eventNumber |-> 1, payload |-> <<49, 48, 0>> ] >>
  /\ \E i \in Invocations :
       /\ Answered(i)
       /\ invs[i].value = Undefined
       /\ invs[i].responses[1].payload = <<0>>

\* C2: every invocation whose handler threw or rejected has exactly one
\* webui_interface_set_response call, with the empty string as payload, and the
\* error reached the application.
C2_ErrorStillAnswered ==
  \A i \in Invocations :
    invs[i].state = "rejected" =>
      /\ Len(invs[i].responses) = 1
      /\ invs[i].responses[1].payload = <<0>>
      /\ i \in unhandled

\* C3: after a handler error the process still dispatches inbound events and
\* delivers responses (proc = "running" is the guard of every dispatch).
C3_ErrorIsolated ==
  (\E i \in Invocations : invs[i].state = "rejected") => proc = "running"

\* C4: whatever the order in which concurrent invocations complete, no
\* invocation has two responses, the response of an invocation carries its own
\* window number, event number and handler value, and it is not delivered
\* under the window and event number of another invocation.
C4_OwnResponse ==
  \A i \in Invocations :
    /\ Len(invs[i].responses) <= 1
    /\ \A k \in 1..Len(invs[i].responses) :
         LET r == invs[i].responses[k] IN
         /\ << r.window, r.eventNumber >> = << TrampolineWindow(i), invs[i].param_event_number.v >>
         /\ r.payload = CBytes(StringForm(invs[i].value))
         /\ \A j \in Invocations \ {i} :
              << invs[j].win.v, invs[j].param_event_number.v >>
                  # << invs[i].win.v, invs[i].param_event_number.v >>
              => << r.window, r.eventNumber >>
                  # << invs[j].win.v, invs[j].param_event_number.v >>

\* Two invocations were in flight together and the later one was answered first.
C4_Witness ==
  \E i, j \in Invocations :
    /\ i < j
    /\ invs[i].state = "awaiting"
    /\ Answered(j)

\* The objects constructed with window number h.
ObjectsOf(h) == { o \in 1..Len(objs) : objs[o].window.v = h }

\* C5: when the window number the native library passes is that of a
\* constructed object, the window field of the Event is an object with that
\* window number, whichever way the FFI layer presents the number.
C5_EventWindow ==
  \A i \in Invocations :
    ObjectsOf(invs[i].win.v) # {} => invs[i].e.window \in ObjectsOf(invs[i].win.v)

\* C6: no handler is called with an Event whose window field is undefined
\* (every element of invs is one call callback(e)).
C6_NoUndefinedWindow ==
  \A i \in Invocations : invs[i].e.window # 0

\* Object o is the last one constructed with its window number.
NotReissued(o) == \A p \in 1..Len(objs) : p > o => objs[p].window.v # objs[o].window.v

C8_LoadedOnce ==
  /\ opens <= 1
  /\ undefinedCalls = {}
  /\ (called # {} \/ objs # <<>> \/ waitPc # "idle") => (opens = 1 /\ lib = 1)
  /\ \A o \in 1..Len(objs) : objs[o].lib = lib

\* Two objects were constructed and a static method was called, after a first
\* loadLib() that threw.
C8_Witness ==
  /\ Len(objs) = 2
  /\ "webui_exit" \in called
  /\ loadFailures = 1
  /\ opens = 1

\* C9: option 5 is written once, to true, in the step that opens the library,
\* and neither webui_new_window nor webui_interface_bind ran before it.
C9_AsyncResponse ==
  /\ cfg5Writes <= 1
  /\ lib # 0 => (cfg5Writes = 1 /\ config[5] = "true")
  /\ lib = 0 => (cfg5Writes = 0 /\ config[5] = "unset")
  /\ early \cap {"webui_new_window", "webui_interface_bind"} = {}

\* A window exists with a binding, and option 5 was written once.
C9_Witness ==
  /\ bound # {}
  /\ {"webui_new_window", "webui_interface_bind"} \subseteq called
  /\ cfg5Writes = 1
  /\ config[5] = "true"

\* C10: webui_wait is never invoked, the loop of wait() invokes no entry point
\* but webui_interface_is_app_running, and wait() has resolved only if its last
\* poll, and no poll before it, answered false.
C10_WaitPolls ==
  /\ "webui_wait" \notin called
  /\ waitNative \subseteq {"webui_interface_is_app_running"}
  /\ waitPc = "resolved" =>
       /\ Len(waitPolls) >= 1
       /\ ~waitPolls[Len(waitPolls)]
       /\ \A k \in 1..(Len(waitPolls) - 1) : waitPolls[k]

\* wait() resolved at its third poll, after two polls that answered true.
C10_Witness ==
  /\ waitPc = "resolved"
  /\ waitPolls = << TRUE, TRUE, FALSE >>

\* No show() or showBrowser() call has been made.
NeverShown == showCall.pc = "idle"

\* C11: wait() is pending only as long as every poll answered true and has
\* resolved only on a poll that answered false; with no window ever shown it
\* resolves at its first poll; and a poll made when the native library reports
\* that the app is not running (after WebUI.exit() or the closing of the last
\* window) resolves it.
C11_WaitResolves ==
  /\ [](waitPc = "sleeping" => \A k \in 1..Len(waitPolls) : waitPolls[k])
  /\ [](waitPc = "resolved" => (waitPolls # <<>> /\ ~waitPolls[Len(waitPolls)]))
  /\ []((NeverShown /\ waitPc = "sleeping") => waitPolls = <<>>)
  /\ []((NeverShown /\ waitPc = "resolved") => waitPolls = << FALSE >>)
  /\ [][ (waitPc = "sleeping" /\ ~NativeAppRunning /\ waitPolls' # waitPolls)
           => waitPc' = "resolved" ]_vars

\* A window was shown, wait() polled once while it ran, the window was closed
\* and the next poll resolved wait().
C11_Witness ==
  /\ waitPc = "resolved"
  /\ waitPolls = << TRUE, FALSE >>
  /\ ~exitNow
  /\ servers = {}
  /\ ~NeverShown

\* C12: while wait() is pending in a live process, a trampoline call that the
\* native library has made can be run by the thread, and an invocation whose
\* handler has finished can be resumed and answered: neither needs wait() to
\* return.
C12_WaitDeliversEvents ==
  (proc = "running" /\ waitPc = "sleeping") =>
    /\ pending # {} => ENABLED Deliver
    /\ InFlight # {} => ENABLED HandlerReturns

\* The native library made a trampoline call while wait() was between two
\* polls, and wait() is still pending.
C12_Witness ==
  /\ waitPc = "sleeping"
  /\ waitPolls # <<>>
  /\ \E ev \in pending : ev.wait

\* C13: while a script() or scriptClient() call is outstanding, a trampoline
\* call that the native library has made is not left without a way to be run
\* and answered: the thread can run it, or the script call can return and
\* free the thread for it.
C13_ScriptDeliversEvents ==
  (proc = "running" /\ scriptCall.pc = "native" /\ pending # {}) =>
    (ENABLED Deliver \/ ENABLED ScriptReturn)

\* The call waits for the connection: it is showBrowser(), or show() on a
\* window on which setFileHandler() has not been called.
WaitsForConnection ==
  /\ showCall.pc # "idle"
  /\ showCall.kind = "showBrowser" \/ ~objs[showCall.this].isFileHandler

\* C14: a show() on a window without file handler, or a showBrowser(), that has
\* resolved had a native show call that returned true and ended on a
\* webui_is_shown query that answered true.
C14_ResolvedIsConnected ==
  (WaitsForConnection /\ showCall.pc = "resolved") =>
    /\ showCall.status
    /\ showCall.queries >= 1
    /\ showCall.shown
    /\ showCall.last

\* show() resolved after three sleeps.
C14_Witness ==
  /\ WaitsForConnection
  /\ showCall.kind = "show"
  /\ showCall.pc = "resolved"
  /\ showCall.sleeps = 3
  /\ showCall.last

\* C15: a show() on a window without file handler, or a showBrowser(), whose
\* native show call returned false is rejected with "unable to start the
\* browser" without a webui_is_shown query or a sleep, and the error goes
\* nowhere but into the promise of the call.
C15_StartFailure ==
  (WaitsForConnection /\ showCall.pc \in {"sleeping", "resolved", "rejected"} /\ ~showCall.status) =>
    /\ showCall.pc = "rejected"
    /\ showCall.error = "unable to start the browser"
    /\ showCall.queries = 0
    /\ showCall.sleeps = 0
    /\ unhandled = {}
    /\ proc = "running"

\* showBrowser() was rejected because the browser did not start.
C15_Witness ==
  /\ showCall.kind = "showBrowser"
  /\ showCall.pc = "rejected"
  /\ ~showCall.status
  /\ showCall.error = "unable to start the browser"

\* C16: the connection poll sleeps at most 120 times, each sleep follows a
\* query that answered false and none follows a query that answered true, a
\* pending call has sleeps left or settles at its next step, and a call that
\* polled is rejected with "unable to connect to the browser" exactly when its
\* last query answered false.
C16_BoundedPoll ==
  /\ showCall.sleeps <= 120
  /\ showCall.pc = "sleeping" =>
       /\ ~showCall.shown
       /\ showCall.queries = showCall.sleeps
       /\ showCall.sleeps = showCall.i + 1
       /\ showCall.i < 120
  /\ (showCall.pc \in {"resolved", "rejected"} /\ showCall.queries > 0) =>
       /\ showCall.queries <= showCall.sleeps + 2
       /\ (showCall.pc = "rejected") = ~showCall.last
       /\ showCall.pc = "rejected" => showCall.error = "unable to connect to the browser"
       /\ showCall.pc = "resolved" => showCall.error = ""

\* A call slept 120 times and was rejected on its 121st query.
C16_Witness ==
  /\ showCall.pc = "rejected"
  /\ showCall.sleeps = 120
  /\ showCall.queries = 121
  /\ showCall.error = "unable to connect to the browser"

C18_FileHandlerShowBrowser ==
  (showCall.kind = "showBrowser" /\ showCall.fileHandler /\ showCall.pc # "idle") =>
    /\ showCall.queries = 0
    /\ showCall.sleeps = 0
    /\ showCall.error # "unable to connect to the browser"

\* C19: every registration of a file-handler trampoline was made with option 0
\* and option 4 already written to false, and both options are false once
\* setFileHandler() has been called on an object.
C19_ConfigBeforeHandler ==
  /\ \A f \in fileHandlers : f.config[0] = "false" /\ f.config[4] = "false"
  /\ \A o \in 1..Len(objs) :
       objs[o].isFileHandler => (config[0] = "false" /\ config[4] = "false")

\* Two windows have a file handler registered.
C19_Witness ==
  /\ Cardinality(fileHandlers) = 2
  /\ \A f \in fileHandlers : objs[f.this].isFileHandler /\ f.config[0] = "false"

\* The handler of file request i has resolved: webui_malloc is the next call.
FileResolved(i) == fileInvs[i].malloc.called

BeforeNul(s) ==
  IF \E k \in 1..Len(s) : s[k] = 0
  THEN SubSeq(s, 1, (CHOOSE k \in 1..Len(s) : s[k] = 0 /\ \A m \in 1..(k - 1) : s[m] # 0) - 1)
  ELSE s

\* C22: fromCString(toCString(s)) is s for a string s without NUL, and the
\* part of s before its first NUL for a string with one.
C22_RoundTrip ==
  utilCall.fn = "roundTrip" => utilCall.result = BeforeNul(utilCall.s)

\* The (system, architecture) pairs for which a library is published.
SupportMatrix == LoaderOS \X {"x86_64", "aarch64"}

LibPathCall == utilCall.fn = "libPath"

LibPathSettled == LibPathCall /\ utilCall.pc \in {"resolved", "rejected"}

\* A pair outside the matrix fails with the unsupported-platform error before
\* any file-system or network operation.
FailsBeforeIO ==
  (LibPathCall /\ << utilCall.os, utilCall.arch >> \notin SupportMatrix) =>
    /\ utilCall.pc = "rejected"
    /\ utilCall.error = "Unsupported architecture"
    /\ utilCall.io = <<>>

\* C23 (as stated): a pair outside the matrix fails before any file-system or
\* network operation, and the evaluation for a pair inside the matrix ends
\* with a non-empty path.
C23_SupportMatrix ==
  /\ FailsBeforeIO
  /\ (LibPathSettled /\ << utilCall.os, utilCall.arch >> \in SupportMatrix) =>
       /\ utilCall.pc = "resolved"
       /\ utilCall.path # <<>>
       /\ \A k \in 1..Len(utilCall.path) : utilCall.path[k] # ""

\* C23 (amended): a pair outside the matrix fails before any file-system or
\* network operation; the evaluation for a pair inside the matrix never fails
\* as unsupported, ends with a non-empty path that names the library of the
\* system when the file is in the cache or the download succeeds, and fails
\* only with the error of an operation that threw.
C23_SupportMatrixGivenIO ==
  /\ FailsBeforeIO
  /\ (LibPathCall /\ << utilCall.os, utilCall.arch >> \in SupportMatrix) =>
       /\ utilCall.error # "Unsupported architecture"
       /\ utilCall.pc = "resolved" =>
            /\ utilCall.path # <<>>
            /\ \A k \in 1..Len(utilCall.path) : utilCall.path[k] # ""
            /\ utilCall.path[Len(utilCall.path)] =
                 (CASE utilCall.os = "windows" -> "webui-2.dll"
                    [] utilCall.os = "darwin" -> "libwebui-2.dylib"
                    [] OTHER -> "libwebui-2.so")
            /\ utilCall.failed = ""
            /\ utilCall.cached \/ "fetch" \in { utilCall.io[k] : k \in 1..Len(utilCall.io) }
       /\ utilCall.pc = "rejected" => (utilCall.failed # "" /\ utilCall.io # <<>>)
       /\ utilCall.pc \in {"download", "resolved"} => utilCall.io # <<>>

\* The evaluation on riscv64 has failed, and nothing was read or written.
C23_Witness ==
  /\ LibPathCall
  /\ utilCall.arch = "riscv64"
  /\ utilCall.pc = "rejected"
  /\ utilCall.io = <<>>

\* C24: an invocation has exactly one native get-argument call per accessor
\* call of its handler and none besides, so none when it is dispatched; each is
\* the entry point of the accessor's type, made with the window number the
\* native library passed, the event number of the invocation and the index
\* the handler gave.
C24_LazyArguments ==
  \A i \in Invocations :
    /\ Len(invs[i].gets) = Len(invs[i].accessed)
    /\ \A k \in 1..Len(invs[i].gets) :
         LET get == invs[i].gets[k]
             call == invs[i].accessed[k]
         IN /\ call.kind = "number" => get.entry = "webui_interface_get_int_at"
            /\ call.kind = "string" => get.entry = "webui_interface_get_string_at"
            /\ call.kind = "boolean" => get.entry = "webui_interface_get_bool_at"
            /\ get.window = invs[i].win.v
            /\ get.eventNumber = invs[i].param_event_number.v
            /\ get.index = call.index

\* Two invocations are in flight: the handler of the second has read a string
\* and a number, the first was dispatched and has made no native call.
C24_Witness ==
  /\ Len(invs) = 2
  /\ invs[1].state = "awaiting" /\ invs[1].gets = <<>>
  /\ invs[2].accessed = << [kind |-> "string", index |-> 0], [kind |-> "number", index |-> 1] >>
  /\ Len(invs[2].gets) = 2
  /\ invs[2].gets[1].eventNumber # invs[1].param_event_number.v

\* C25: every trampoline invocation has called a handler, the one given to the
\* bind() call that made the trampoline and no other, whatever the element and
\* the type of the event; and an event entered the trampoline bound to its
\* element when the window had one at that time, else the one bound to "".
C25_Routing ==
  /\ [](\A i \in Invocations :
          /\ invs[i].state # "dropped"
          /\ invs[i].callback = << invs[i].this, invs[i].id >>
          /\ invs[i].id \in {invs[i].e.element, ""}
          /\ objs[invs[i].this].window.v = invs[i].win.v)
  /\ [][ Len(invs') = Len(invs) + 1 =>
           LET n == invs'[Len(invs')]
               exact == { b \in bound : b[1] = n.win.v /\ b[2] = n.e.element }
           IN /\ << n.win.v, n.id, n.this >> \in bound
              /\ exact # {} => n.id = n.e.element
              /\ exact = {} => n.id = "" ]_vars

\* A window has the bindings "sum" and "": a call of "sum" reached the handler
\* of "sum", and a connection event of another element the handler of "".
C25_Witness ==
  /\ Len(invs) = 2
  /\ invs[1].win = invs[2].win
  /\ invs[1].callback = << invs[1].this, "sum" >>
  /\ invs[1].e.element = "sum" /\ invs[1].e.eventType.v = 4
  /\ invs[2].callback = << invs[2].this, "" >>
  /\ invs[2].e.element = "ping" /\ invs[2].e.eventType.v = 1
  /\ << invs[2].win.v, "sum", invs[2].this >> \in bound

\* The object constructed last among those with the window number of o.
LatestOf(o) ==
  CHOOSE p \in 1..Len(objs) :
    /\ objs[p].window.v = objs[o].window.v
    /\ \A q \in 1..Len(objs) : objs[q].window.v = objs[o].window.v => q <= p

\* C26: a step changes the registry only by constructing an object, which it
\* registers under its window number; no step removes a key; and the entry of
\* every window number issued maps to the object constructed last with it.
C26_RegistryFrame ==
  /\ [][ windows' # windows =>
           /\ Len(objs') = Len(objs) + 1
           /\ windows' = WindowsSet(BigInt(objs'[Len(objs')].window), Len(objs')) ]_vars
  /\ [][ \A p \in windows : \E q \in windows' : q[1] = p[1] ]_vars
  /\ [](\A o \in 1..Len(objs) : WindowsGet(BigInt(objs[o].window)) = LatestOf(o))

\* A window was shown and destroyed, WebUI.exit() and WebUI.clean() were called,
\* and a second window was constructed with the number of the first: the
\* registry holds the second.
C26_Witness ==
  /\ Len(objs) = 2
  /\ 1 \in destroyed
  /\ objs[1].window = objs[2].window
  /\ windows = { << BigInt(objs[2].window), 2 >> }
  /\ {"webui_exit", "webui_clean", "webui_interface_bind"} \subseteq called
  /\ showCall.this = 1
  /\ invs # <<>>

\* C27: the step in which a show() or showBrowser() call is rejected leaves the
\* objects (window number and file-handler flag), the registry and the
\* bindings as they were; after it a show() on the same object can be called;
\* the call that follows a rejected one makes its native show call and starts
\* its connection poll afresh; and a show() whose native call has started the
\* browser can resolve.
C27_FailedShowRecoverable ==
  /\ [][ (showCall.pc # "rejected" /\ showCall'.pc = "rejected") =>
           (objs' = objs /\ windows' = windows /\ bound' = bound /\ live' = live
            /\ destroyed' = destroyed) ]_vars
  /\ [](showCall.pc = "rejected" =>
          /\ showCall.error \in {"unable to start the browser", "unable to connect to the browser"}
          /\ ENABLED showStart(showCall.this, "show", TRUE))
  /\ [][ (showCall.pc = "rejected" /\ showCall' # showCall) =>
           /\ showCall'.pc = "native"
           /\ showCall'.entry = (IF showCall'.kind = "show" THEN "webui_show"
                                  ELSE "webui_show_browser")
           /\ showCall'.queries = 0 /\ showCall'.sleeps = 0 /\ showCall'.error = "" ]_vars
  /\ []((showCall.pc = "native" /\ showCall.kind = "show" /\ showCall.status) =>
          ENABLED (ShowReturn /\ showCall'.pc = "resolved"))

\* A show() on a window with the bindings "sum" and "" timed out after 120
\* sleeps and was rejected; the window and its bindings are there.
C27_Witness ==
  /\ showCall.kind = "show"
  /\ showCall.pc = "rejected"
  /\ showCall.error = "unable to connect to the browser"
  /\ showCall.sleeps = 120
  /\ showCall.this \notin destroyed
  /\ WindowsGet(BigInt(objs[showCall.this].window)) = showCall.this
  /\ Cardinality({ b \in bound : b[3] = showCall.this }) = 2

FileResponded == { i \in 1..Len(fileInvs) : fileInvs[i].state = "responded" }

\* C28: for every file request answered, the bytes copied into the block that
\* webui_malloc returned are no more than the size asked of webui_malloc.
C28_CopyWithinBlock ==
  \A i \in FileResponded : Len(fileInvs[i].written) <= fileInvs[i].malloc.size

\* C29: the length given to webui_interface_set_response_file_handler is the
\* number of payload bytes in the block: the bytes of a Uint8Array, the UTF-8
\* bytes of a string without its terminator.
C29_ResponseLength ==
  \A i \in FileResponded :
    LET r == fileInvs[i].value IN
    /\ r.t = "bytes" => fileInvs[i].responses[1].length = Len(r.b)
    /\ r.t = "string" => fileInvs[i].responses[1].length = Len(TextEncode(r.s))

\* C30: fromCString of a buffer is the decoding of the bytes before its first
\* NUL, of all its bytes when it has none.
C30_DecodesBeforeNul ==
  utilCall.fn = "fromCString" => utilCall.result = TextDecode(BeforeNul(utilCall.value))

====
